---- MODULE Spec2Model ----
(***************************************************************************)
(* Model of tools/unicode_dbl_width.py: the generator that turns the       *)
(* per-code-point east-asian-width data of the UCD into the range tables   *)
(* of termptydbl.{c,h}.                                                    *)
(*                                                                         *)
(* A <char> element is a function from attribute names to values; an       *)
(* absent attribute is a name outside its DOMAIN (c.get() gives None).     *)
(* The cp attribute is a string of hexadecimal digits, modelled as the     *)
(* sequence of its digit values; the ea and ExtPict attributes are         *)
(* strings.  The elements are read one at a time, in strictly increasing   *)
(* code point order, as the UCD repertoire lists them.                     *)
(*                                                                         *)
(* Spec reads repertoires whose elements all have a code point;            *)
(* SpecWithNoCp reads shorter repertoires that also hold elements without  *)
(* one (the reserved, surrogate and noncharacter ranges of the UCD).       *)
(***************************************************************************)
EXTENDS Integers, Sequences, FiniteSets

\* Largest code point of the modelled repertoire.
MaxCp == 3
\* Largest number of elements with a code point in one repertoire.
MaxChars == 3
\* Largest number of elements without a code point in one repertoire, and
\* of elements with a code point in a repertoire that may hold those.
MaxSkipped == 1
MaxCharsWithNoCp == 2

VARIABLES emoji_as_wide, pc, error, chars, skipped, range, ranges,
          file_header, ambigous_merged, ambigous_ranges, ambigous_cases,
          wide_merged, wide_ranges, wide_cases

vars == <<emoji_as_wide, pc, error, chars, skipped, range, ranges,
          file_header, ambigous_merged, ambigous_ranges, ambigous_cases,
          wide_merged, wide_ranges, wide_cases>>

\* namedtuple('range', ['width', 'start', 'end'])
Range(width, start, end) == [width |-> width, start |-> start, end |-> end]

----------------------------------------------------------------------------
(* The input: the attribute values the elements are drawn from.            *)

\* The two hexadecimal digits of code point n, as the UCD writes it.
HexDigits(n) == <<n \div 16, n % 16>>

\* The east-asian-width values of the UCD.
EaValues == {"N", "Na", "H", "A", "W", "F"}
\* Values the UCD does not use: the empty string and an unknown value.
EaOther == {"", "X"}
ExtPictValues == {"Y", "N"}

\* Elements with a code point and a valid width.
CharElements ==
  { [cp |-> HexDigits(n), ea |-> e, ExtPict |-> x] :
      n \in 0..MaxCp, e \in EaValues, x \in ExtPictValues }
\* Elements with a code point whose width is unknown or absent.
BadCharElements ==
  { [cp |-> HexDigits(n), ea |-> "X", ExtPict |-> "N"] : n \in 0..MaxCp }
    \cup { [cp |-> HexDigits(n), ExtPict |-> "N"] : n \in 0..MaxCp }
\* Elements without a code point (cp absent, or cp=""), of any width.
NoCpElements ==
  { [ea |-> e, ExtPict |-> x] : e \in EaValues \cup EaOther, x \in ExtPictValues }
    \cup { [cp |-> <<>>, ea |-> e] : e \in EaValues \cup EaOther }
    \cup { [ExtPict |-> x] : x \in ExtPictValues }

----------------------------------------------------------------------------
(* get_ranges                                                              *)

Has(c, name) == name \in DOMAIN c

\* A variant of NoCp that overlooks the empty string.
NoCp_absent_only(c) == ~Has(c, "cp")

\* `not cp`: the attribute is absent or the empty string.
NoCp(c) == ~Has(c, "cp") \/ c.cp = <<>>

\* int(cp, 16)
RECURSIVE HexInt(_)
HexInt(s) ==
  IF s = <<>> THEN 0 ELSE 16 * HexInt(SubSeq(s, 1, Len(s) - 1)) + s[Len(s)]

\* Lines 25-28.  ('F') is the string 'F', so `ea in ('F')` is a substring
\* test, which the empty string passes too.
Normalize(ea) ==
  LET ea1 == IF ea \in {"Na", "H"} THEN "N" ELSE ea
  IN  IF ea1 \in {"", "F"} THEN "W" ELSE ea1

\* A variant of EmojiOverride that tests the marker for 'y'.
EmojiOverride_lowercase(c, ea) ==
  IF emoji_as_wide /\ Has(c, "ExtPict") /\ c.ExtPict = "y" THEN "W" ELSE ea

\* Lines 33-36.
EmojiOverride(c, ea) ==
  IF emoji_as_wide /\ Has(c, "ExtPict") /\ c.ExtPict = "Y" THEN "W" ELSE ea

\* The code point of the last element with a code point read so far.
LastCp == IF chars = <<>> THEN -1 ELSE HexInt(chars[Len(chars)].cp)

\* The elements with a code point the repertoire can hold next: code
\* points strictly increase.
Follows(c) == HexInt(c.cp) > LastCp /\ HexInt(c.cp) <= MaxCp

\* A variant of NewRange that keeps the start of the Range before.
NewRange_keeps_start(ea, cp) == [range EXCEPT !.width = ea, !.end = cp]

\* Line 41: the Range that starts at an element of another width.
NewRange(ea, cp) == Range(ea, cp, cp)

Abort(e) ==
  /\ pc' = "aborted"
  /\ error' = e
  /\ UNCHANGED <<emoji_as_wide, chars, skipped, range, ranges, file_header,
                 ambigous_merged, ambigous_ranges, ambigous_cases,
                 wide_merged, wide_ranges, wide_cases>>

\* One iteration of the loop of get_ranges over element c.
ReadChar(c) ==
  /\ pc = "get_ranges"
  /\ IF ~Has(c, "ea") THEN Abort("TypeError")
     ELSE LET ea == Normalize(c.ea) IN
       IF ea \notin {"N", "A", "W"} THEN Abort("AssertionError")
       ELSE IF NoCp(c)
       THEN /\ skipped' = skipped + 1
            /\ UNCHANGED <<emoji_as_wide, pc, error, chars, range, ranges,
                           file_header, ambigous_merged, ambigous_ranges,
                           ambigous_cases, wide_merged, wide_ranges, wide_cases>>
       ELSE LET ea2 == EmojiOverride(c, ea)
                cp == HexInt(c.cp)
            IN  /\ IF ea2 # range.width
                   THEN /\ ranges' = Append(ranges, range)
                        /\ range' = NewRange(ea2, cp)
                   ELSE /\ range' = [range EXCEPT !.end = cp]
                        /\ UNCHANGED ranges
                /\ chars' = Append(chars, c)
                /\ UNCHANGED <<emoji_as_wide, pc, error, skipped, file_header,
                               ambigous_merged, ambigous_ranges, ambigous_cases,
                               wide_merged, wide_ranges, wide_cases>>

\* The loop ends: the last Range is appended and the list is returned.
ReturnRanges ==
  /\ pc = "get_ranges"
  /\ ranges' = Append(ranges, range)
  /\ pc' = "gen_header"
  /\ UNCHANGED <<emoji_as_wide, error, chars, skipped, range, file_header,
                 ambigous_merged, ambigous_ranges, ambigous_cases,
                 wide_merged, wide_ranges, wide_cases>>

----------------------------------------------------------------------------
(* merge_ranges, skip_ranges                                               *)

\* The is_same_width of gen_ambigous.
ambigous_is_same_width(r1, r2) ==
  IF r1.width = "N" THEN r2.width = "N" ELSE r2.width \in {"A", "W"}

\* The is_same_width of gen_wide.
\* A variant of wide_is_same_width with the classes of the ambiguous policy.
wide_is_same_width_as_ambigous(r1, r2) ==
  IF r1.width = "N" THEN r2.width = "N" ELSE r2.width \in {"A", "W"}

wide_is_same_width(r1, r2) ==
  IF r1.width \in {"N", "A"} THEN r2.width \in {"N", "A"} ELSE r2.width = "W"

\* merge_ranges is handed one of the two nested functions, named here by
\* its qualified name; Call applies it.
Call(is_same_width, r1, r2) ==
  CASE is_same_width = "gen_ambigous.is_same_width" -> ambigous_is_same_width(r1, r2)
    [] is_same_width = "gen_wide.is_same_width" -> wide_is_same_width(r1, r2)

\* A variant of merge_ranges whose else branch does not restart the
\* accumulator at r.
merge_ranges_no_restart(rs, is_same_width) ==
  LET step[i \in 0..Len(rs)] ==
        IF i = 0 THEN [res |-> <<>>, range |-> rs[1]]
        ELSE LET p == step[i - 1]
                 r == rs[i]
             IN  IF Call(is_same_width, r, p.range)
                 THEN [res |-> p.res, range |-> [p.range EXCEPT !.end = r.end]]
                 ELSE [res |-> Append(p.res, p.range), range |-> p.range]
      last == step[Len(rs)]
  IN  Append(last.res, last.range)

\* The fold of merge_ranges over a non-empty list; step[i] is the state of
\* (res, range) after i iterations of the loop.
merge_ranges(rs, is_same_width) ==
  LET step[i \in 0..Len(rs)] ==
        IF i = 0 THEN [res |-> <<>>, range |-> rs[1]]
        ELSE LET p == step[i - 1]
                 r == rs[i]
             IN  IF Call(is_same_width, r, p.range)
                 THEN [res |-> p.res, range |-> [p.range EXCEPT !.end = r.end]]
                 ELSE [res |-> Append(p.res, p.range), range |-> r]
      last == step[Len(rs)]
  IN  Append(last.res, last.range)

\* A variant of skip_ranges with the test inverted.
skip_ranges_inverted(rs, width_skipped) ==
  SelectSeq(rs, LAMBDA r : r.width \in width_skipped)

skip_ranges(rs, width_skipped) ==
  SelectSeq(rs, LAMBDA r : r.width \notin width_skipped)

\* ranges[1:]
Tail1(rs) == SubSeq(rs, 2, Len(rs))

----------------------------------------------------------------------------
(* gen_header, gen_ambigous, gen_wide                                      *)

\* The header holds the threshold of the fast path, ranges[0].end.
gen_header ==
  /\ pc = "gen_header"
  /\ file_header' = Append(file_header, ranges[1].end)
  /\ pc' = "gen_ambigous"
  /\ UNCHANGED <<emoji_as_wide, error, chars, skipped, range, ranges,
                 ambigous_merged, ambigous_ranges, ambigous_cases,
                 wide_merged, wide_ranges, wide_cases>>

\* A case entry: a single value or an inclusive range, with or without
\* the EINA_FALLTHROUGH continuation.
Case(r, fallthrough) ==
  [kind |-> IF r.start = r.end THEN "single" ELSE "range",
   start |-> r.start, end |-> r.end, fallthrough |-> fallthrough]

\* A variant of ambigous_write_cases that compares idx with len(ranges).
ambigous_write_cases_off_by_one(rs) ==
  LET step[i \in 0..Len(rs)] ==
        IF i = 0 THEN [out |-> <<>>, fallthrough |-> TRUE]
        ELSE LET p == step[i - 1]
                 r == rs[i]
                 idx == i - 1
             IN  IF r.width = "N" THEN p
                 ELSE LET ft == IF idx = Len(rs) THEN FALSE
                                ELSE p.fallthrough
                      IN  [out |-> Append(p.out, Case(r, ft)),
                           fallthrough |-> ft]
  IN  step[Len(rs)].out

\* The loop that writes the case entries of _termpty_is_ambigous_wide;
\* step[i] is (entries written, fallthrough) after i iterations.
ambigous_write_cases(rs) ==
  LET step[i \in 0..Len(rs)] ==
        IF i = 0 THEN [out |-> <<>>, fallthrough |-> TRUE]
        ELSE LET p == step[i - 1]
                 r == rs[i]
                 idx == i - 1
             IN  IF r.width = "N" THEN p
                 ELSE LET ft == IF idx = Len(rs) - 1 THEN FALSE
                                ELSE p.fallthrough
                      IN  [out |-> Append(p.out, Case(r, ft)),
                           fallthrough |-> ft]
  IN  step[Len(rs)].out

gen_ambigous ==
  /\ pc = "gen_ambigous"
  /\ IF Tail1(ranges) = <<>> THEN Abort("IndexError")
     ELSE LET merged == merge_ranges(Tail1(ranges), "gen_ambigous.is_same_width")
              kept == skip_ranges(merged, {"N"})
          IN  /\ ambigous_merged' = merged
              /\ ambigous_ranges' = kept
              /\ ambigous_cases' = ambigous_write_cases(kept)
              /\ pc' = "gen_wide"
              /\ UNCHANGED <<emoji_as_wide, error, chars, skipped, range,
                             ranges, file_header, wide_merged, wide_ranges,
                             wide_cases>>

\* The loop that writes the case entries of _termpty_is_wide.
wide_write_cases(rs) ==
  LET step[i \in 0..Len(rs)] ==
        IF i = 0 THEN [out |-> <<>>, fallthrough |-> TRUE]
        ELSE LET p == step[i - 1]
                 r == rs[i]
                 idx == i - 1
             IN  IF r.width \in {"N", "A"} THEN p
                 ELSE LET ft == IF idx = Len(rs) - 1 THEN FALSE
                                ELSE p.fallthrough
                      IN  [out |-> Append(p.out, Case(r, ft)),
                           fallthrough |-> ft]
  IN  step[Len(rs)].out

gen_wide ==
  /\ pc = "gen_wide"
  /\ IF Tail1(ranges) = <<>> THEN Abort("IndexError")
     ELSE LET merged == merge_ranges(Tail1(ranges), "gen_wide.is_same_width")
              kept == skip_ranges(merged, {"N", "A"})
          IN  /\ wide_merged' = merged
              /\ wide_ranges' = kept
              /\ wide_cases' = wide_write_cases(kept)
              /\ pc' = "done"
              /\ UNCHANGED <<emoji_as_wide, error, chars, skipped, range,
                             ranges, file_header, ambigous_merged,
                             ambigous_ranges, ambigous_cases>>

----------------------------------------------------------------------------

Init ==
  /\ emoji_as_wide \in BOOLEAN
  /\ pc = "get_ranges"
  /\ error = "none"
  /\ chars = <<>>
  /\ skipped = 0
  /\ range = Range("N", 0, 0)
  /\ ranges = <<>>
  /\ file_header = <<>>
  /\ ambigous_merged = <<>>
  /\ ambigous_ranges = <<>>
  /\ ambigous_cases = <<>>
  /\ wide_merged = <<>>
  /\ wide_ranges = <<>>
  /\ wide_cases = <<>>

Next ==
  \/ \E c \in CharElements \cup BadCharElements :
       Len(chars) < MaxChars /\ Follows(c) /\ ReadChar(c)
  \/ ReturnRanges
  \/ gen_header
  \/ gen_ambigous
  \/ gen_wide

Spec == Init /\ [][Next]_vars

NextWithNoCp ==
  \/ \E c \in CharElements \cup BadCharElements :
       Len(chars) < MaxCharsWithNoCp /\ Follows(c) /\ ReadChar(c)
  \/ \E c \in NoCpElements : skipped < MaxSkipped /\ ReadChar(c)
  \/ ReturnRanges
  \/ gen_header
  \/ gen_ambigous
  \/ gen_wide

SpecWithNoCp == Init /\ [][NextWithNoCp]_vars

----------------------------------------------------------------------------
(* Vocabulary of the properties.                                           *)

\* get_ranges has returned its list.
Returned == pc # "get_ranges" /\ error \notin {"TypeError", "AssertionError"}
\* gen_ambigous, gen_wide have built their lists and written their cases.
AmbigousDone == pc \in {"gen_wide", "done"}
WideDone == pc = "done"

\* The effective class of an element with a valid width, as the UCD
\* defines it: Na and H are narrow, F is wide, and an extended
\* pictographic is wide when emoji count as wide.
Class(c) ==
  IF emoji_as_wide /\ c.ExtPict = "Y" THEN "W"
  ELSE CASE c.ea \in {"N", "Na", "H"} -> "N"
         [] c.ea = "A" -> "A"
         [] c.ea \in {"W", "F"} -> "W"

Contains(r, p) == r.start <= p /\ p <= r.end
Holders(rs, p) == {i \in DOMAIN rs : Contains(rs[i], p)}
InSome(rs, p) == Holders(rs, p) # {}
Adjacent(rs) == {i \in DOMAIN rs : i + 1 \in DOMAIN rs}

----------------------------------------------------------------------------
\* C1: every code point of the input is contained in exactly one Range of
\* the list get_ranges returns, and that Range has the code point's
\* effective class.
C1_Coverage ==
  Returned =>
    \A k \in DOMAIN chars :
      LET p == HexInt(chars[k].cp) IN
        /\ Cardinality(Holders(ranges, p)) = 1
        /\ \A i \in Holders(ranges, p) : ranges[i].width = Class(chars[k])

\* C2: once a policy's list is merged and filtered, an input code point is
\* in one of its Ranges exactly when its effective class is kept by the
\* policy: W for the wide policy, A or W for the ambiguous policy.
C2_PolicyMembership ==
  \A k \in DOMAIN chars :
    LET p == HexInt(chars[k].cp) IN
      /\ AmbigousDone =>
           (InSome(ambigous_ranges, p) <=> Class(chars[k]) \in {"A", "W"})
      /\ WideDone =>
           (InSome(wide_ranges, p) <=> Class(chars[k]) = "W")

\* C2 witness: both lists are built from an input that holds all three
\* classes, and a merged range of the ambiguous policy spans several code
\* points.
C2_Witness ==
  /\ WideDone
  /\ {Class(chars[k]) : k \in DOMAIN chars} = {"N", "A", "W"}
  /\ \E i \in DOMAIN ambigous_ranges :
       ambigous_ranges[i].start < ambigous_ranges[i].end
  /\ wide_ranges # <<>>

\* The end of the first maximal run of narrow code points that starts at
\* the first element.
NarrowRunEnd ==
  LET n == CHOOSE n \in 0..Len(chars) :
             /\ \A k \in 1..n : Class(chars[k]) = "N"
             /\ n < Len(chars) => Class(chars[n + 1]) # "N"
  IN  HexInt(chars[n].cp)

\* C3: the threshold of the header is the end of the first narrow run, and
\* no Range of either final list holds a code point at or below it.
C3_ThresholdCorrectness ==
  WideDone =>
    LET threshold == file_header[1] IN
      /\ (chars # <<>> /\ Class(chars[1]) = "N") => threshold = NarrowRunEnd
      /\ \A i \in DOMAIN ambigous_ranges : ambigous_ranges[i].start > threshold
      /\ \A i \in DOMAIN wide_ranges : wide_ranges[i].start > threshold

\* The narrow extended pictographics of the input, when emoji count as wide.
NarrowEmoji ==
  {k \in DOMAIN chars :
     emoji_as_wide /\ chars[k].ExtPict = "Y" /\ chars[k].ea \in {"N", "Na", "H"}}

\* C4 as stated: a narrow extended pictographic is in a Range of the wide
\* policy's list and in no Range of the ambiguous policy's list.
C4_EmojiOnlyInWide ==
  WideDone =>
    \A k \in NarrowEmoji :
      LET p == HexInt(chars[k].cp) IN
        /\ InSome(wide_ranges, p)
        /\ ~InSome(ambigous_ranges, p)

\* C4 as amended: a narrow extended pictographic gets class W in
\* get_ranges and is in a Range of the wide policy's list and in a Range
\* of the ambiguous policy's list, which keeps W as well as A.
C4_EmojiInBoth ==
  \A k \in NarrowEmoji :
    LET p == HexInt(chars[k].cp) IN
      /\ Returned => \E i \in Holders(ranges, p) : ranges[i].width = "W"
      /\ AmbigousDone => InSome(ambigous_ranges, p)
      /\ WideDone => InSome(wide_ranges, p)

C4_Witness == WideDone /\ NarrowEmoji # {}

\* C5 as stated: two adjacent Ranges of a policy's list after the fold and
\* the filter are never of the same width under that policy.
C5_MergeSoundnessFiltered ==
  /\ AmbigousDone =>
       \A i \in Adjacent(ambigous_ranges) :
         ~ambigous_is_same_width(ambigous_ranges[i], ambigous_ranges[i + 1])
  /\ WideDone =>
       \A i \in Adjacent(wide_ranges) :
         ~wide_is_same_width(wide_ranges[i], wide_ranges[i + 1])

\* C5 as amended: two adjacent Ranges of a policy's list after the fold,
\* before the filter, are never of the same width under that policy.
C5_MergeSoundnessFold ==
  /\ AmbigousDone =>
       \A i \in Adjacent(ambigous_merged) :
         ~ambigous_is_same_width(ambigous_merged[i], ambigous_merged[i + 1])
  /\ WideDone =>
       \A i \in Adjacent(wide_merged) :
         ~wide_is_same_width(wide_merged[i], wide_merged[i + 1])

\* C5 witness: both folds merged some Ranges and left several.
C5_Witness ==
  /\ WideDone
  /\ Len(ambigous_merged) >= 2 /\ Len(ambigous_merged) < Len(ranges) - 1
  /\ Len(wide_merged) >= 2 /\ Len(wide_merged) < Len(ranges) - 1

\* C6: every Range of the wide policy's final list has width W, and every
\* Range of the ambiguous policy's final list has width A or W.
C6_FilterCompleteness ==
  /\ AmbigousDone =>
       \A i \in DOMAIN ambigous_ranges : ambigous_ranges[i].width \in {"A", "W"}
  /\ WideDone =>
       \A i \in DOMAIN wide_ranges : wide_ranges[i].width = "W"

\* C6 witness: the ambiguous policy kept a run that an A started and a W
\* extended, and both folds dropped something.
C6_Witness ==
  /\ WideDone
  /\ \E i \in DOMAIN ambigous_ranges :
       /\ ambigous_ranges[i].width = "A"
       /\ \E k \in DOMAIN chars :
            /\ Contains(ambigous_ranges[i], HexInt(chars[k].cp))
            /\ Class(chars[k]) = "W"
  /\ Len(ambigous_ranges) < Len(ambigous_merged)
  /\ wide_ranges # <<>> /\ Len(wide_ranges) < Len(wide_merged)

\* The case entries written for the list kept: one per Range, in order,
\* a single value when start = end, a continuation on all but the last.
CasesOf(cases, kept) ==
  /\ Len(cases) = Len(kept)
  /\ \A i \in DOMAIN cases :
       /\ cases[i].start = kept[i].start
       /\ cases[i].end = kept[i].end
       /\ cases[i].kind = "single" <=> kept[i].start = kept[i].end
       /\ cases[i].kind = "range" <=> kept[i].start < kept[i].end
       /\ cases[i].fallthrough <=> i < Len(cases)
  /\ \A i \in Adjacent(cases) : cases[i].start < cases[i + 1].start

\* C7: the last case entry of each table has no continuation, every
\* earlier one has; the entries are in ascending order, one per Range.
C7_FallthroughIntegrity ==
  /\ AmbigousDone => CasesOf(ambigous_cases, ambigous_ranges)
  /\ WideDone => CasesOf(wide_cases, wide_ranges)

\* C7 witness: the table of the wide policy has several entries, and the
\* tables hold entries of both kinds.
C7_Witness ==
  /\ WideDone
  /\ Len(wide_cases) >= 2
  /\ \E i \in DOMAIN ambigous_cases : ambigous_cases[i].kind = "range"
  /\ \E i \in DOMAIN wide_cases : wide_cases[i].kind = "single"

ReadsNoCp(c) == ("cp" \notin DOMAIN c \/ c.cp = <<>>) /\ ReadChar(c)

\* C9 as stated: reading an element without a code point leaves the Range
\* and the list unchanged and the loop goes on, whatever its width.
C9_SkipAnyWidth ==
  [][\A c \in NoCpElements :
       ReadsNoCp(c) => (UNCHANGED <<range, ranges>> /\ pc' = "get_ranges")]_vars

\* C9 as amended: reading an element without a code point whose width
\* passes the assertion leaves the Range and the list unchanged and the
\* loop goes on, whatever its ExtPict marker.
C9_SkipValidWidth ==
  [][\A c \in NoCpElements :
       (ReadsNoCp(c) /\ Has(c, "ea") /\ c.ea \in EaValues \cup {""})
         => (UNCHANGED <<range, ranges>> /\ pc' = "get_ranges")]_vars

\* C9 witness: an element without a code point was skipped and the loop
\* goes on, with Ranges in the list.
C9_Witness == pc = "get_ranges" /\ skipped > 0 /\ ranges # <<>>

\* C10: with valid widths, the merge and the filter of each policy
\* complete; the run aborts only on a schema violation.
C10_FoldCompletes ==
  pc = "aborted" => error \in {"TypeError", "AssertionError"}

====
